---- MODULE Spec2Model ----
(***************************************************************************)
(* GoldFeatureEngineering (src/src/features/Feature_Engineering_Gold.py):  *)
(* a builder that copies a price table and enriches its own copy with      *)
(* technical-indicator columns in four passes.                             *)
(*                                                                         *)
(* A table is [index, data]: the time index and one sequence of cells per  *)
(* column name.  A cell is NaN, a number, an observation of the input      *)
(* table, or the application of an operation to cells.  The indicator      *)
(* classes of the ta package are not part of the source: a call to one is  *)
(* kept as the application of that indicator to the columns the source     *)
(* hands it, and is taken to return a series on the index of its input.    *)
(* The numbers the package returns for the four series that the source     *)
(* compares (SMA_20, SMA_50, EMA_12, EMA_26) are inputs of the program,    *)
(* held in the variable ta.  The arithmetic the source does itself with    *)
(* pandas (shift, pct_change, rolling, the operators) is modelled with its *)
(* NaN rows.                                                               *)
(***************************************************************************)
EXTENDS Integers, Sequences, FiniteSets, TLC

\* Bounds of the model.
MaxRows == 2
MaxCalls == 4

VARIABLES
    heap,              \* reference -> table: the DataFrame objects
    caller_df,         \* the reference the caller holds (the constructor's df)
    self_df,           \* self.df (0 before construction)
    features_created,  \* self.features_created
    raised,            \* the last invocation ended in a KeyError
    reported,          \* the count in the last invocation's closing message (0: none)
    last,              \* the pass invoked last ("none" before any)
    invoked,           \* pass -> number of invocations so far
    before,            \* the builder's column names when the last invocation began
    reads,             \* the column names the last invocation read from self.df
    calls,             \* number of invocations so far
    df0,               \* the caller's table as it was before construction
    ta                 \* the numbers the ta package returns for the compared series

vars == <<heap, caller_df, self_df, features_created, raised, reported, last,
          invoked, before, reads, calls, df0, ta>>

----------------------------------------------------------------------------
\* Cells

NaN == [op |-> "NaN", p |-> <<>>, i |-> 0, args |-> <<>>]

Num(k) == [op |-> "num", p |-> <<k>>, i |-> 0, args |-> <<>>]

\* The value the input table holds in column c at row i.
Obs(c, i) == [op |-> c, p |-> <<>>, i |-> i, args |-> <<>>]

\* The series whose numbers the source compares, as <<indicator, parameters>>.
Compared ==
    {<<"SMAIndicator.sma_indicator", <<20>>>>, <<"SMAIndicator.sma_indicator", <<50>>>>,
     <<"EMAIndicator.ema_indicator", <<12>>>>, <<"EMAIndicator.ema_indicator", <<26>>>>}

\* What the package may return in one row of such a series: 0 stands for NaN.
LibValues == {0, 1, 2}

\* The number a cell holds, 0 for NaN.
Value(c) ==
    IF c.op = "num" THEN c.p[1]
    ELSE IF <<c.op, c.p>> \in DOMAIN ta /\ c.i \in DOMAIN ta[<<c.op, c.p>>]
         THEN ta[<<c.op, c.p>>][c.i]
    ELSE 0

----------------------------------------------------------------------------
\* pandas and numpy, as far as the source uses them

Columns(t) == DOMAIN t.data

\* a > b on two series: False wherever either side is NaN.
GtNaNTrue(x, y) == ~(Value(x) # 0 /\ Value(y) # 0 /\ Value(x) <= Value(y))

Gt(x, y) == Value(x) # 0 /\ Value(y) # 0 /\ Value(x) > Value(y)

\* np.where(a > b, 1, 0)
np_where_gt(a, b) == [i \in 1..Len(a) |-> IF Gt(a[i], b[i]) THEN Num(1) ELSE Num(0)]

\* Arithmetic on two cells: NaN if either is.
BinOp(op, x, y) ==
    IF x = NaN \/ y = NaN THEN NaN
    ELSE [op |-> op, p |-> <<>>, i |-> 0, args |-> <<x, y>>]

\* series (op) series, row by row on the shared index.
Elementwise(op, a, b) == [i \in 1..Len(a) |-> BinOp(op, a[i], b[i])]

\* series (op) scalar.
Scalar(op, a, k) == [i \in 1..Len(a) |-> BinOp(op, a[i], k)]

\* Series.shift(period)
shift(a, period) == [i \in 1..Len(a) |-> IF i > period THEN a[i - period] ELSE NaN]

\* Series.pct_change(): a / a.shift(1) - 1
pct_change(a) == Scalar("sub", Elementwise("div", a, shift(a, 1)), Num(1))

\* Series.rolling(window).mean() / .std(): NaN until the window is full.
rolling(agg, a, window) ==
    [i \in 1..Len(a) |->
        IF i < window THEN NaN
        ELSE IF \E j \in (i - window + 1)..i : a[j] = NaN THEN NaN
        ELSE [op |-> agg, p |-> <<window>>, i |-> 0,
              args |-> SubSeq(a, i - window + 1, i)]]

\* np.sqrt(period)
np_sqrt(k) == [op |-> "sqrt", p |-> <<k>>, i |-> 0, args |-> <<>>]

RECURSIVE Flatten(_)
Flatten(cols) == IF cols = <<>> THEN <<>> ELSE Head(cols) \o Flatten(Tail(cols))

\* A series an indicator of ta returns for input series cols: one cell per
\* row of the input, on the input's index.
Indicator(op, params, cols) ==
    [i \in 1..Len(cols[1]) |->
        IF <<op, params>> \in DOMAIN ta /\ i \in DOMAIN ta[<<op, params>>]
           /\ ta[<<op, params>>][i] = 0
        THEN NaN
        ELSE [op |-> op, p |-> params, i |-> i, args |-> Flatten(cols)]]

\* self.df[name] (total: the KeyError is raised by Assign)
GetItem(t, name) == IF name \in Columns(t) THEN t.data[name] ELSE <<>>

\* self.df[name] = col, followed by a dropna(): a mutation of SetItem
SetItemDropNa(t, name, col) ==
    LET keep == {i \in 1..Len(t.index) : i \in DOMAIN col /\ col[i] # NaN}
        F[i \in 0..Len(t.index)] ==
            IF i = 0 THEN <<>> ELSE IF i \in keep THEN Append(F[i - 1], i) ELSE F[i - 1]
        rows == F[Len(t.index)]
        d == (name :> col) @@ t.data
    IN  [index |-> [k \in 1..Len(rows) |-> t.index[rows[k]]],
         data |-> [c \in DOMAIN d |-> [k \in 1..Len(rows) |-> d[c][rows[k]]]]]

\* self.df[name] = col that keeps an existing column and adds a suffixed
\* one: a mutation of SetItem
SetItemKeep(t, name, col) ==
    IF name \in Columns(t)
    THEN [t EXCEPT !.data = ("_dup" :> col) @@ t.data]
    ELSE [t EXCEPT !.data = (name :> col) @@ t.data]

\* self.df[name] = col: adds the column, or overwrites the one of that name.
SetItem(t, name, col) == [t EXCEPT !.data = (name :> col) @@ t.data]

\* f'{prefix}{period}'
Fmt(prefix, period) ==
    LET k == <<prefix, period>> IN
    CASE k = <<"SMA_", 5>> -> "SMA_5"     [] k = <<"SMA_", 10>> -> "SMA_10"
      [] k = <<"SMA_", 20>> -> "SMA_20"   [] k = <<"SMA_", 50>> -> "SMA_50"
      [] k = <<"SMA_", 100>> -> "SMA_100" [] k = <<"SMA_", 200>> -> "SMA_200"
      [] k = <<"EMA_", 9>> -> "EMA_9"     [] k = <<"EMA_", 12>> -> "EMA_12"
      [] k = <<"EMA_", 21>> -> "EMA_21"   [] k = <<"EMA_", 26>> -> "EMA_26"
      [] k = <<"EMA_", 50>> -> "EMA_50"
      [] k = <<"RSI_", 14>> -> "RSI_14"   [] k = <<"RSI_", 21>> -> "RSI_21"
      [] k = <<"ROC_", 10>> -> "ROC_10"   [] k = <<"ROC_", 20>> -> "ROC_20"
      [] k = <<"ATR_", 14>> -> "ATR_14"   [] k = <<"ATR_", 20>> -> "ATR_20"
      [] k = <<"Volatility_", 10>> -> "Volatility_10"
      [] k = <<"Volatility_", 20>> -> "Volatility_20"
      [] k = <<"Volatility_", 30>> -> "Volatility_30"
      [] k = <<"Volume_SMA_", 10>> -> "Volume_SMA_10"
      [] k = <<"Volume_SMA_", 20>> -> "Volume_SMA_20"

----------------------------------------------------------------------------
\* Statements of a pass.  A pass works on b = [df, fc, raised, reads]: the
\* builder's table, its registry, whether a KeyError has been raised (the
\* rest of the pass is then skipped) and the columns read so far.

\* self.df[name] = col, where computing col reads self.df[c] for c in needs:
\* a missing c raises KeyError before anything is assigned.
Assign(b, name, needs, col) ==
    IF b.raised THEN b
    ELSE IF ~(needs \subseteq Columns(b.df))
         THEN [b EXCEPT !.raised = TRUE, !.reads = @ \cup needs]
    ELSE [b EXCEPT !.df = SetItem(b.df, name, col), !.reads = @ \cup needs]

\* self.features_created.append / .extend
Register(b, names) == IF b.raised THEN b ELSE [b EXCEPT !.fc = @ \o names]


----------------------------------------------------------------------------
\* add_moving_averages

RECURSIVE SMALoop(_, _)
SMALoop(b, periods) ==
    IF periods = <<>> THEN b
    ELSE LET period == Head(periods)
             sma == Indicator("SMAIndicator.sma_indicator", <<period>>,
                              <<GetItem(b.df, "Close")>>)
             b1 == Assign(b, Fmt("SMA_", period), {"Close"}, sma)
         IN  SMALoop(Register(b1, <<Fmt("SMA_", period)>>), Tail(periods))

RECURSIVE EMALoop(_, _)
EMALoop(b, periods) ==
    IF periods = <<>> THEN b
    ELSE LET period == Head(periods)
             ema == Indicator("EMAIndicator.ema_indicator", <<period>>,
                              <<GetItem(b.df, "Close")>>)
             b1 == Assign(b, Fmt("EMA_", period), {"Close"}, ema)
         IN  EMALoop(Register(b1, <<Fmt("EMA_", period)>>), Tail(periods))

MovingAverages(b) ==
    LET periods == <<5, 10, 20, 50, 100, 200>>
        b1 == SMALoop(b, periods)
        b2 == EMALoop(b1, <<9, 12, 21, 26, 50>>)
        b3 == Assign(b2, "SMA_Cross_20_50", {"SMA_20", "SMA_50"},
                     np_where_gt(GetItem(b2.df, "SMA_20"), GetItem(b2.df, "SMA_50")))
        b4 == Assign(b3, "EMA_Cross_12_26", {"EMA_12", "EMA_26"},
                     np_where_gt(GetItem(b3.df, "EMA_12"), GetItem(b3.df, "EMA_26")))
    IN  [b4 EXCEPT !.reported = IF b4.raised THEN 0 ELSE Len(periods) * 2 + 2]

----------------------------------------------------------------------------
\* add_momentum_indicators

RECURSIVE RSILoop(_, _)
RSILoop(b, periods) ==
    IF periods = <<>> THEN b
    ELSE LET period == Head(periods)
             rsi == Indicator("RSIIndicator.rsi", <<period>>, <<GetItem(b.df, "Close")>>)
             b1 == Assign(b, Fmt("RSI_", period), {"Close"}, rsi)
         IN  RSILoop(Register(b1, <<Fmt("RSI_", period)>>), Tail(periods))

RECURSIVE ROCLoop(_, _)
ROCLoop(b, periods) ==
    IF periods = <<>> THEN b
    ELSE LET period == Head(periods)
             close == GetItem(b.df, "Close")
             roc == Scalar("mul",
                           Elementwise("div",
                                       Elementwise("sub", close, shift(close, period)),
                                       shift(close, period)),
                           Num(100))
             b1 == Assign(b, Fmt("ROC_", period), {"Close"}, roc)
         IN  ROCLoop(Register(b1, <<Fmt("ROC_", period)>>), Tail(periods))

Momentum(b) ==
    LET b1 == RSILoop(b, <<14, 21>>)
        hlc == <<GetItem(b1.df, "High"), GetItem(b1.df, "Low"), GetItem(b1.df, "Close")>>
        b2 == Assign(b1, "Stoch_K", {"High", "Low", "Close"},
                     Indicator("StochasticOscillator.stoch", <<14, 3>>, hlc))
        b3 == Assign(b2, "Stoch_D", {"High", "Low", "Close"},
                     Indicator("StochasticOscillator.stoch_signal", <<14, 3>>, hlc))
        b4 == Register(b3, <<"Stoch_K", "Stoch_D">>)
        close == <<GetItem(b4.df, "Close")>>
        b5 == Assign(b4, "MACD", {"Close"}, Indicator("MACD.macd", <<26, 12, 9>>, close))
        b6 == Assign(b5, "MACD_Signal", {"Close"},
                     Indicator("MACD.macd_signal", <<26, 12, 9>>, close))
        b7 == Assign(b6, "MACD_Diff", {"Close"},
                     Indicator("MACD.macd_diff", <<26, 12, 9>>, close))
        b8 == Register(b7, <<"MACD", "MACD_Signal", "MACD_Diff">>)
        b9 == ROCLoop(b8, <<10, 20>>)
    IN  [b9 EXCEPT !.reported = IF b9.raised THEN 0 ELSE 9]

----------------------------------------------------------------------------
\* add_volatility_indicators

RECURSIVE ATRLoop(_, _)
ATRLoop(b, periods) ==
    IF periods = <<>> THEN b
    ELSE LET period == Head(periods)
             atr == Indicator("AverageTrueRange.average_true_range", <<period>>,
                              <<GetItem(b.df, "High"), GetItem(b.df, "Low"),
                                GetItem(b.df, "Close")>>)
             b1 == Assign(b, Fmt("ATR_", period), {"High", "Low", "Close"}, atr)
         IN  ATRLoop(Register(b1, <<Fmt("ATR_", period)>>), Tail(periods))

RECURSIVE VolatilityLoop(_, _)
VolatilityLoop(b, periods) ==
    IF periods = <<>> THEN b
    ELSE LET period == Head(periods)
             returns == pct_change(GetItem(b.df, "Close"))
             vol == Scalar("mul", rolling("std", returns, period), np_sqrt(period))
             b1 == Assign(b, Fmt("Volatility_", period), {"Close"}, vol)
         IN  VolatilityLoop(Register(b1, <<Fmt("Volatility_", period)>>), Tail(periods))

Volatility(b) ==
    LET b1 == ATRLoop(b, <<14, 20>>)
        close == <<GetItem(b1.df, "Close")>>
        b2 == Assign(b1, "BB_High", {"Close"},
                     Indicator("BollingerBands.bollinger_hband", <<20, 2>>, close))
        b3 == Assign(b2, "BB_Mid", {"Close"},
                     Indicator("BollingerBands.bollinger_mavg", <<20, 2>>, close))
        b4 == Assign(b3, "BB_Low", {"Close"},
                     Indicator("BollingerBands.bollinger_lband", <<20, 2>>, close))
        b5 == Assign(b4, "BB_Width", {"Close"},
                     Indicator("BollingerBands.bollinger_wband", <<20, 2>>, close))
        b6 == Assign(b5, "BB_Pct", {"Close"},
                     Indicator("BollingerBands.bollinger_pband", <<20, 2>>, close))
        b7 == Register(b6, <<"BB_High", "BB_Mid", "BB_Low", "BB_Width", "BB_Pct">>)
        b8 == VolatilityLoop(b7, <<10, 20, 30>>)
    IN  [b8 EXCEPT !.reported = IF b8.raised THEN 0 ELSE 10]

----------------------------------------------------------------------------
\* add_volume_indicators

\* A guard that never skips the pass: a mutation of HasVolume
HasVolumeAlways(t) == TRUE

\* 'Volume' in self.df.columns
HasVolume(t) == "Volume" \in Columns(t)

\* The moving-average pass's 20-period column: a mutation of VolumeAverage
VolumeAverageFromTrend == "SMA_20"

\* The column Volume_Ratio divides by.
VolumeAverage == "Volume_SMA_20"

RECURSIVE VolumeSMALoop(_, _)
VolumeSMALoop(b, periods) ==
    IF periods = <<>> THEN b
    ELSE LET period == Head(periods)
             mean == rolling("mean", GetItem(b.df, "Volume"), period)
             b1 == Assign(b, Fmt("Volume_SMA_", period), {"Volume"}, mean)
         IN  VolumeSMALoop(Register(b1, <<Fmt("Volume_SMA_", period)>>), Tail(periods))

Volume(b) ==
    IF ~HasVolume(b.df) THEN b
    ELSE LET obv == Indicator("OnBalanceVolumeIndicator.on_balance_volume", <<>>,
                              <<GetItem(b.df, "Close"), GetItem(b.df, "Volume")>>)
             b1 == Register(Assign(b, "OBV", {"Close", "Volume"}, obv), <<"OBV">>)
             b2 == VolumeSMALoop(b1, <<10, 20>>)
             b3 == Assign(b2, "Volume_Ratio", {"Volume", VolumeAverage},
                          Elementwise("div", GetItem(b2.df, "Volume"),
                                      GetItem(b2.df, VolumeAverage)))
             b4 == Register(b3, <<"Volume_Ratio">>)
         IN  [b4 EXCEPT !.reported = IF b4.raised THEN 0 ELSE 4]

----------------------------------------------------------------------------
\* The caller's tables

Passes == {"add_moving_averages", "add_momentum_indicators",
           "add_volatility_indicators", "add_volume_indicators"}

OHLCV == {"Open", "High", "Low", "Close", "Volume"}

\* The column sets of the tables handed to the constructor: the full one,
\* and one each without Volume, without High and without Close.
ColumnSets == {OHLCV, OHLCV \ {"Volume"}, OHLCV \ {"High"}, OHLCV \ {"Close"}}

\* A table of n observations on an ascending index.
InputTable(cols, n) ==
    [index |-> [i \in 1..n |-> i],
     data |-> [c \in cols |-> [i \in 1..n |-> Obs(c, i)]]]

\* What the package returns for the compared series on n rows: the rows
\* before the last are in every lookback's warm-up (NaN), the last row of
\* series k holds v[k].
Returned(n, v) == [k \in Compared |-> [i \in 1..n |-> IF i < n THEN 0 ELSE v[k]]]

\* Every outcome of the last row, series by series.
Outcomes(n) == {Returned(n, v) : v \in [Compared -> LibValues]}

\* The outcomes in which the four series agree on the last row.
FlatOutcomes(n) == {Returned(n, [k \in Compared |-> x]) : x \in LibValues}

----------------------------------------------------------------------------
\* The state machine

InitWith(cols, n, out) ==
    /\ df0 = InputTable(cols, n)
    /\ heap = (1 :> df0)
    /\ caller_df = 1
    /\ self_df = 0
    /\ features_created = <<>>
    /\ raised = FALSE
    /\ reported = 0
    /\ last = "none"
    /\ invoked = [p \in Passes |-> 0]
    /\ before = {}
    /\ reads = {}
    /\ calls = 0
    /\ ta = out

Init ==
    \E cols \in ColumnSets, n \in 1..MaxRows :
        \E out \in FlatOutcomes(n) : InitWith(cols, n, out)

\* self.df = df: a mutation of copy
copy_alias(h, ref) == [heap |-> h, ref |-> ref]

\* df.copy(): a new DataFrame object holding the data and index of h[ref].
copy(h, ref) ==
    LET new == CHOOSE r \in 1..(Cardinality(DOMAIN h) + 1) : r \notin DOMAIN h
    IN  [heap |-> (new :> h[ref]) @@ h, ref |-> new]

\* GoldFeatureEngineering.__init__(df)
Construct ==
    /\ self_df = 0
    /\ LET c == copy(heap, caller_df)
       IN  /\ heap' = c.heap
           /\ self_df' = c.ref
    /\ features_created' = <<>>
    /\ UNCHANGED <<caller_df, raised, reported, last, invoked, before, reads,
                   calls, df0, ta>>

\* The builder as a pass finds it.
Builder ==
    [df |-> heap[self_df], fc |-> features_created, raised |-> FALSE,
     reads |-> {}, reported |-> 0]

\* The builder as pass name leaves it: self.df is mutated in place.
Invoke(name, b) ==
    /\ self_df # 0
    /\ calls < MaxCalls
    /\ heap' = [heap EXCEPT ![self_df] = b.df]
    /\ features_created' = b.fc
    /\ raised' = b.raised
    /\ reported' = b.reported
    /\ reads' = b.reads
    /\ last' = name
    /\ invoked' = [invoked EXCEPT ![name] = @ + 1]
    /\ before' = Columns(heap[self_df])
    /\ calls' = calls + 1
    /\ UNCHANGED <<caller_df, self_df, df0, ta>>

add_moving_averages == Invoke("add_moving_averages", MovingAverages(Builder))

add_momentum_indicators == Invoke("add_momentum_indicators", Momentum(Builder))

add_volatility_indicators == Invoke("add_volatility_indicators", Volatility(Builder))

add_volume_indicators == Invoke("add_volume_indicators", Volume(Builder))

Next ==
    \/ Construct
    \/ add_moving_averages
    \/ add_momentum_indicators
    \/ add_volatility_indicators
    \/ add_volume_indicators

Spec == Init /\ [][Next]_vars

\* The moving-average pass alone, on full tables, under every outcome of the
\* compared series.
InitCross ==
    \E n \in 1..MaxRows : \E out \in Outcomes(n) : InitWith(OHLCV, n, out)

NextCross ==
    \/ Construct
    \/ add_moving_averages

SpecCross == InitCross /\ [][NextCross]_vars

----------------------------------------------------------------------------
\* Properties

\* The builder's table (defined once the builder is constructed).
df == heap[self_df]

Constructed == self_df # 0

\* The names in the registry.
Registered == {features_created[k] : k \in DOMAIN features_created}

\* An invocation has just happened in this step.
Invoked == calls' = calls + 1

\* The builder a pass would find right after construction.
FreshBuilder == [df |-> df0, fc |-> <<>>, raised |-> FALSE, reads |-> {}, reported |-> 0]

\* Pass name run alone on the freshly constructed builder.
Alone(name) ==
    CASE name = "add_moving_averages" -> MovingAverages(FreshBuilder)
      [] name = "add_momentum_indicators" -> Momentum(FreshBuilder)
      [] name = "add_volatility_indicators" -> Volatility(FreshBuilder)
      [] name = "add_volume_indicators" -> Volume(FreshBuilder)

VolumeColumns == {"OBV", "Volume_SMA_10", "Volume_SMA_20", "Volume_Ratio"}

\* C1: after any sequence of passes the builder's table has the index of
\* the constructor's table, every column holds one cell per index entry, and
\* the observations are where they were.
C1_RowsAndIndexKept ==
    Constructed =>
        /\ df.index = df0.index
        /\ \A c \in Columns(df) : Len(df.data[c]) = Len(df0.index)
        /\ \A c \in Columns(df0) : c \in Columns(df) /\ df.data[c] = df0.data[c]

C1_Witness ==
    /\ Constructed
    /\ \A name \in Passes : invoked[name] >= 1
    /\ ~raised
    /\ Cardinality(Columns(df)) > Cardinality(Columns(df0)) + 30

\* C2: the table the caller passed to the constructor is what it was before
\* construction, whatever passes ran on the builder.
C2_CallerTableUntouched == heap[caller_df] = df0

C2_Witness ==
    /\ Constructed
    /\ calls >= 2
    /\ Columns(df) # Columns(df0)
    /\ Columns(heap[caller_df]) = Columns(df0)

\* C3: add_volume_indicators on a table without a Volume column raises
\* nothing and leaves the table and the registry as they were.
C3_VolumeSkipped ==
    [][(Invoked /\ last' = "add_volume_indicators" /\ "Volume" \notin Columns(df))
         => /\ ~raised'
            /\ heap' = heap
            /\ features_created' = features_created]_vars

C3_Witness ==
    /\ Constructed
    /\ last = "add_volume_indicators"
    /\ "Volume" \notin Columns(df)
    /\ invoked["add_moving_averages"] >= 1
    /\ invoked["add_volatility_indicators"] >= 1
    /\ ~raised
    /\ VolumeColumns \cap Columns(df) = {}
    /\ "SMA_20" \in Columns(df)

\* C4: every column of the builder's table that the constructor's table did
\* not have is named in features_created.
C4_EveryAddedColumnRegistered ==
    Constructed => (Columns(df) \ Columns(df0)) \subseteq Registered

\* C5: a pass that fails on a missing price column leaves the column set
\* and the registry as they were when it was invoked.
C5_FailedPassChangesNothing ==
    [][(Invoked /\ raised')
         => /\ Columns(heap'[self_df]) = Columns(df)
            /\ features_created' = features_created]_vars

\* C6 as claimed: on a table with a Volume column the volume columns are
\* there only if add_moving_averages was invoked before.
C6_VolumeNeedsMovingAverages ==
    (Constructed /\ VolumeColumns \subseteq Columns(df))
        => invoked["add_moving_averages"] >= 1

\* C6 as amended: add_volume_indicators reads only Close and Volume of the
\* constructor's table and the Volume_SMA_20 column it writes itself; on a
\* table with Close and Volume it completes and produces the four volume
\* columns whether or not add_moving_averages was invoked.
C6_VolumeStandsAlone ==
    (Constructed /\ last = "add_volume_indicators"
        /\ {"Close", "Volume"} \subseteq Columns(df0))
        => /\ ~raised
           /\ reads = {"Close", "Volume", "Volume_SMA_20"}
           /\ VolumeColumns \subseteq Columns(df)
           /\ df.data["Volume_Ratio"] = Alone("add_volume_indicators").df.data["Volume_Ratio"]

C6_Witness ==
    /\ Constructed
    /\ last = "add_volume_indicators"
    /\ invoked["add_moving_averages"] = 0
    /\ ~raised
    /\ VolumeColumns \subseteq Columns(df)

\* C7: on a table with Open, High, Low, Close and Volume, in whatever order
\* and however often the passes were invoked, the table holds the
\* constructor's columns and the columns of each invoked pass, each with the
\* cells that pass gives when it alone runs on the fresh builder, and the
\* last pass read only columns of the constructor's table and its own.
C7_OrderIndependent ==
    (Constructed /\ Columns(df0) = OHLCV) =>
        LET done == {name \in Passes : invoked[name] >= 1}
        IN  /\ Columns(df) = Columns(df0) \cup UNION {Columns(Alone(name).df) : name \in done}
            /\ \A name \in done :
                 LET alone == Alone(name).df
                 IN  \A c \in Columns(alone) : c \in Columns(df) /\ df.data[c] = alone.data[c]
            /\ last \in Passes => reads \subseteq Columns(Alone(last).df)

C7_Witness ==
    /\ Constructed
    /\ Columns(df0) = OHLCV
    /\ \A name \in Passes : invoked[name] = 1
    /\ last = "add_moving_averages"
    /\ ~raised
    /\ VolumeColumns \subseteq Columns(df)

\* C8: invoking a pass that was invoked before leaves the table, its column
\* set and every cell, as it was.
C8_RerunOverwrites ==
    [][(Invoked /\ invoked[last'] >= 1) => heap' = heap]_vars

C8_Witness ==
    /\ Constructed
    /\ last \in Passes
    /\ invoked[last] = 2
    /\ \E other \in Passes \ {last} : invoked[other] >= 1
    /\ ~raised
    /\ Cardinality(Columns(df)) > Cardinality(Columns(df0)) + 10

\* The cross column holds, row by row, 1 where fast and slow are both
\* defined and fast > slow, and 0 elsewhere.
CrossOf(cross, fast, slow) ==
    \A i \in 1..Len(df.index) :
        LET f == Value(df.data[fast][i])
            s == Value(df.data[slow][i])
            x == df.data[cross][i]
        IN  /\ x \in {Num(0), Num(1)}
            /\ (f # 0 /\ s # 0) => (x = Num(1) <=> f > s)
            /\ (f = 0 \/ s = 0) => x = Num(0)
            /\ (f = 0) <=> (df.data[fast][i] = NaN)
            /\ (s = 0) <=> (df.data[slow][i] = NaN)

\* C9: after add_moving_averages, SMA_Cross_20_50 is 1 exactly on the rows
\* where SMA_20 and SMA_50 are defined and SMA_20 > SMA_50, and 0 on every
\* other row, rows with an undefined average included; likewise
\* EMA_Cross_12_26 with EMA_12 and EMA_26.
C9_CrossSignals ==
    (Constructed /\ invoked["add_moving_averages"] >= 1) =>
        /\ {"SMA_Cross_20_50", "EMA_Cross_12_26"} \subseteq Columns(df)
        /\ Len(df.data["SMA_Cross_20_50"]) = Len(df.index)
        /\ Len(df.data["EMA_Cross_12_26"]) = Len(df.index)
        /\ CrossOf("SMA_Cross_20_50", "SMA_20", "SMA_50")
        /\ CrossOf("EMA_Cross_12_26", "EMA_12", "EMA_26")

C9_Witness ==
    /\ Constructed
    /\ invoked["add_moving_averages"] >= 1
    /\ Len(df.index) = 2
    /\ df.data["SMA_20"][1] = NaN
    /\ df.data["SMA_Cross_20_50"] = <<Num(0), Num(1)>>
    /\ Value(df.data["EMA_12"][2]) = 1
    /\ Value(df.data["EMA_26"][2]) = 1
    /\ df.data["EMA_Cross_12_26"] = <<Num(0), Num(0)>>

\* C10: the count a pass reports in its closing message is the number of
\* columns it added to a table that had none of them.
C10_ReportedCountIsColumnsAdded ==
    (Constructed /\ last \in Passes /\ ~raised /\ reported > 0 /\ invoked[last] = 1)
        => reported = Cardinality(Columns(df) \ before)

====
